---- MODULE Spec2Model ----
(***************************************************************************)
(* PromptVault: the {{name:default}} template engine, the bubble's copy    *)
(* workflow, the clipboard utility, the API-backed storage service with    *)
(* its import, legacy migration and version history, and the connection    *)
(* status of the API clients, modelled as state machines.                  *)
(*                                                                         *)
(* Strings are sequences of one-character strings.                         *)
(***************************************************************************)
EXTENDS Integers, Sequences, FiniteSets, TLC

VARIABLES
    content,        \* template engine: the content string under test
    op,             \* template engine: which function was applied last
    variables,      \* template engine: result of extractVariables(content)
    values,         \* template engine: the values argument of replaceVariables
    replaced,       \* template engine: result of replaceVariables(content, values)
    variableModal,  \* bubble App: {open, prompt} of the variable modal
    variableValues, \* bubble App: the values typed into the modal
    copiedId,       \* bubble App: the prompt last marked as copied
    clipboard,      \* the platform clipboard's text
    writes,         \* bubble App: the clipboard writes started, with their state
    requests,       \* history: one record per copy request (handleCopy call)
    modalReq,       \* history: the copy request the open modal belongs to
    webResult,      \* web app: what the last copyToClipboard(text) call did
    localStorage,   \* storage service: the stored value of each cache key
    storageWorks,   \* environment: whether localStorage calls succeed (no throw)
    remote,         \* API server: the stored prompts and folders
    calls,          \* storage service: the async calls made, with their state
    json,           \* import: the parsed text handed to importData
    imported,       \* import: what importData returned for it
    prompt,         \* version history: the prompt createPromptVersion is applied to
    now,            \* version history: the clock read by Date.now()
    client,         \* connection: which API client runs ("web" or "bubble")
    connectionStatus,        \* connection: the current status
    connectionListeners,     \* connection: the registered listeners, in order
    received,                \* history: the statuses each listener was called with
    connectionCheckInterval, \* web client: whether the monitor's timer is set
    timers,         \* web client: the interval timers active in the runtime
    starts,         \* history: the startConnectionMonitoring calls made
    probes          \* connection: the checkConnection calls, with their state

tplVars == <<content, op, variables, values, replaced>>
copyVars == <<variableModal, variableValues, copiedId, clipboard,
              writes, requests, modalReq, webResult>>
syncVars == <<localStorage, storageWorks, remote, calls>>
utilVars == <<json, imported, prompt, now>>
connVars == <<client, connectionStatus, connectionListeners, received,
              connectionCheckInterval, timers, starts, probes>>
restVars == <<utilVars, connVars>>
vars == <<tplVars, copyVars, syncVars, restVars>>

(***************************************************************************)
(* Bounds                                                                  *)
(***************************************************************************)
\* contents are concatenations of at most MaxPieces pieces
MaxPieces == 3
\* copy requests (clicks on a prompt's copy button) in one behaviour
MaxRequests == 2
\* clipboard writes started in one behaviour
MaxWrites == 2
\* storage-service calls made in one behaviour
MaxCalls == 2

(***************************************************************************)
(* Strings                                                                 *)
(***************************************************************************)
\* JavaScript's undefined (no string of characters equals it)
Undefined == <<"undefined">>

\* the pieces contents are built from: single characters and placeholder parts
Pieces ==
    { <<"{">>, <<"}">>, <<":">>, <<" ">>, <<"a">>,
      <<"{", "{">>, <<"}", "}">>,
      <<"{", "{", "a">>, <<"{", "{", "a", "}">>, <<"{", "{", " ", "b", " ">>,
      <<":", "b", "}", "}">>, <<":", " ", "}", "}">>,
      <<"{", "{", "a", "}", "}">> }

\* the names and the texts a values mapping is built from
ValueNames == { <<"a">>, <<"b">> }
ValueTexts == { <<>>, <<"x">> }
ValueMaps  == UNION { [N -> ValueTexts] : N \in SUBSET ValueNames }
NoValues   == [n \in {} |-> <<>>]

RECURSIVE Flatten(_)
Flatten(ps) == IF ps = <<>> THEN <<>> ELSE Head(ps) \o Flatten(Tail(ps))

Min(S) == CHOOSE x \in S : \A y \in S : x <= y

IsSpace(c) == c = " "

\* String.prototype.trim
RECURSIVE trimStart(_)
trimStart(s) ==
    IF s # <<>> /\ IsSpace(Head(s)) THEN trimStart(Tail(s)) ELSE s

RECURSIVE trimEnd(_)
trimEnd(s) ==
    IF s # <<>> /\ IsSpace(s[Len(s)]) THEN trimEnd(SubSeq(s, 1, Len(s) - 1)) ELSE s

trim(s) == trimEnd(trimStart(s))

(***************************************************************************)
(* The placeholder pattern: two opening braces, one or more characters     *)
(* other than a closing brace or a colon (group 1), optionally a colon and *)
(* any characters other than a closing brace (group 2), two closing braces *)
(***************************************************************************)
NoMatch == [index |-> 0]

\* first position >= i holding a character of stop, or Len(s)+1
SpanEnd(s, i, stop) ==
    LET S == { j \in i..Len(s) : s[j] \in stop }
    IN  IF S = {} THEN Len(s) + 1 ELSE Min(S)

ClosesAt(s, j) == j + 1 <= Len(s) /\ s[j] = "}" /\ s[j + 1] = "}"

\* the match of the pattern that starts at position i (1-based), if any:
\* index, end (the position after the match), group 1 and group 2
MatchAt(s, i) ==
    IF ~(i + 1 <= Len(s) /\ s[i] = "{" /\ s[i + 1] = "{") THEN NoMatch
    ELSE LET ns == i + 2
             ne == SpanEnd(s, ns, {"}", ":"})          \* greedy [^}:]+
         IN  IF ne = ns \/ ne > Len(s) THEN NoMatch
             ELSE IF s[ne] = ":"
                  THEN LET ds == ne + 1
                           de == SpanEnd(s, ds, {"}"}) \* greedy [^}]*
                       IN  IF ClosesAt(s, de)
                           THEN [index |-> i, end |-> de + 2,
                                 g1 |-> SubSeq(s, ns, ne - 1),
                                 g2 |-> SubSeq(s, ds, de - 1)]
                           ELSE NoMatch
                  ELSE IF ClosesAt(s, ne)
                       THEN [index |-> i, end |-> ne + 2,
                             g1 |-> SubSeq(s, ns, ne - 1),
                             g2 |-> Undefined]
                       ELSE NoMatch

\* regex.exec with the g flag: the leftmost match at or after lastIndex
exec(s, lastIndex) ==
    LET S == { i \in lastIndex..Len(s) : MatchAt(s, i) # NoMatch }
    IN  IF S = {} THEN NoMatch ELSE MatchAt(s, Min(S))

\* every match of the pattern in s, left to right, from position from
RECURSIVE MatchesFrom(_, _)
MatchesFrom(s, from) ==
    LET m == exec(s, from)
    IN  IF m = NoMatch THEN <<>> ELSE <<m>> \o MatchesFrom(s, m.end)

Matches(s) == MatchesFrom(s, 1)

(***************************************************************************)
(* extractVariables                                                        *)
(***************************************************************************)
optTrim(g) == IF g = Undefined THEN Undefined ELSE trim(g)

RECURSIVE extractLoop(_, _, _, _)
extractLoop(s, lastIndex, acc, seen) ==
    LET m == exec(s, lastIndex)
    IN  IF m = NoMatch THEN acc
        ELSE LET name == trim(m.g1)
             IN  IF name \notin seen
                 THEN extractLoop(s, m.end,
                          Append(acc, [name |-> name, defaultValue |-> optTrim(m.g2)]),
                          seen \cup {name})
                 ELSE extractLoop(s, m.end, acc, seen)

\* a loop that forgets the seen set: every occurrence is pushed
extractVariablesNoSeen(s) ==
    LET ms == Matches(s)
    IN  [k \in 1..Len(ms) |->
            [name |-> trim(ms[k].g1), defaultValue |-> optTrim(ms[k].g2)]]

extractVariables(s) == extractLoop(s, 1, <<>>, {})

(***************************************************************************)
(* replaceVariables                                                        *)
(***************************************************************************)
\* the fallback written with the untrimmed name
replacementUntrimmed(vals, g1) ==
    LET trimmedName == trim(g1)
    IN  IF trimmedName \in DOMAIN vals THEN vals[trimmedName]
        ELSE <<"{", "{">> \o g1 \o <<"}", "}">>

\* the fallback chosen with || instead of ??: an empty value counts as absent
replacementFalsy(vals, g1) ==
    LET trimmedName == trim(g1)
    IN  IF trimmedName \in DOMAIN vals /\ vals[trimmedName] # <<>>
        THEN vals[trimmedName]
        ELSE <<"{", "{">> \o trimmedName \o <<"}", "}">>

\* the value looked up under the name as written, padding included
replacementByRawName(vals, g1) ==
    IF g1 \in DOMAIN vals THEN vals[g1]
    ELSE <<"{", "{">> \o trim(g1) \o <<"}", "}">>

\* values[trimmedName] ?? `{{${trimmedName}}}`
replacement(vals, g1) ==
    LET trimmedName == trim(g1)
    IN  IF trimmedName \in DOMAIN vals THEN vals[trimmedName]
        ELSE <<"{", "{">> \o trimmedName \o <<"}", "}">>

RECURSIVE replaceFrom(_, _, _)
replaceFrom(s, from, vals) ==
    LET m == exec(s, from)
    IN  IF m = NoMatch THEN SubSeq(s, from, Len(s))
        ELSE SubSeq(s, from, m.index - 1) \o replacement(vals, m.g1)
             \o replaceFrom(s, m.end, vals)

replaceVariables(s, vals) == replaceFrom(s, 1, vals)

(***************************************************************************)
(* The bubble's copy workflow (App.tsx) and the web clipboard utility      *)
(***************************************************************************)
\* null where a text is expected, and null where a prompt is expected
Null == <<"null">>
NoPrompt == 0

\* the contents of the prompts the bubble lists, by prompt id: one whose braces
\* form no placeholder, one with two placeholders
BubblePrompts ==
    <<  <<"{", "{", "a", "}", " ", "b">>,
        <<"{", "{", "a", ":", "b", "}", "}", " ", "{", "{", " ", "b", " ", "}", "}">>  >>

PromptIds == DOMAIN BubblePrompts

\* the texts typed into the modal's inputs
TypedTexts == { <<"x">> }

ClosedModal == [open |-> FALSE, prompt |-> NoPrompt]

CopyIdle ==
    /\ variableModal = ClosedModal
    /\ variableValues = NoValues
    /\ copiedId = NoPrompt
    /\ clipboard = Null
    /\ writes = <<>>
    /\ requests = <<>>
    /\ modalReq = 0
    /\ webResult = [called |-> FALSE]

(***************************************************************************)
(* Entities, the local cache (localStorage) and the API server             *)
(***************************************************************************)
\* the two collections; each has its cache key and its API routes
Kinds == {"prompts", "folders"}

NoFolder == 0

\* a record as an object: its fields are its properties
Has(o, f) == f \in DOMAIN o

\* { ...a, ...b }
Spread(a, b) == [f \in DOMAIN a \cup DOMAIN b |-> IF f \in DOMAIN b THEN b[f] ELSE a[f]]

\* a prompt with every field of the Prompt type (tags, isFavorite and the
\* timestamps are carried by title: they are copied wherever title is)
Prompt(id, title) ==
    [id |-> id, title |-> title, isPinned |-> FALSE, folderId |-> NoFolder,
     versions |-> <<>>]

\* a prompt of the legacy shape: no isPinned, folderId or versions
LegacyPrompt(id, title) == [id |-> id, title |-> title]

Folder(id, name) == [id |-> id, name |-> name]

\* the ids of the entities of a collection
Ids(k) == IF k = "prompts" THEN {1, 2} ELSE {1}

\* the entities the UI saves (an edit gives the title "t2")
SaveInputs(k) ==
    IF k = "prompts" THEN { Prompt(i, "t2") : i \in Ids(k) }
    ELSE { Folder(i, "t2") : i \in Ids(k) }

\* what the server and the cache hold when the behaviour starts: a fresh
\* install, a client in step with the server, a fresh client of a server that
\* has data, and a cache that outlived the server's data
SeedData == [prompts |-> <<Prompt(1, "t1")>>, folders |-> <<Folder(1, "t1")>>]
NoData == [k \in Kinds |-> <<>>]
Seeds ==
    { [remote |-> NoData, cached |-> FALSE],
      [remote |-> SeedData, cached |-> TRUE],
      [remote |-> SeedData, cached |-> FALSE],
      [remote |-> NoData, cached |-> TRUE] }

RECURSIVE MapSeq(_, _)
MapSeq(F(_), s) == IF s = <<>> THEN <<>> ELSE <<F(Head(s))>> \o MapSeq(F, Tail(s))

\* Array.prototype.findIndex on the id (0 when absent)
findIndex(list, id) ==
    LET S == { i \in DOMAIN list : list[i].id = id }
    IN  IF S = {} THEN 0 ELSE Min(S)

\* Array.prototype.filter(e => e.id !== id)
filterOut(list, id) == SelectSeq(list, LAMBDA e : e.id # id)

\* what a cache key holds: nothing, text that is no JSON, the JSON of a list, or
\* the JSON of a value that is no array (null, an object, a number)
NoItem == [stored |-> "nothing"]
Garbage == [stored |-> "garbage"]
Stored(list) == [stored |-> "json", list |-> list]
StoredOther == [stored |-> "other"]

\* what JSON.parse returns for StoredOther, kept apart from every list of
\* entities; Array.isArray
NotArray == <<[notArray |-> TRUE]>>
isArray(v) == ~(Len(v) = 1 /\ Has(v[1], "notArray"))

\* getCachedPrompts / getCachedFolders: a throwing getItem, a missing item and a
\* parse failure all yield []
getCached(k) ==
    IF ~storageWorks THEN <<>>
    ELSE IF localStorage[k].stored = "json" THEN localStorage[k].list
    ELSE IF localStorage[k].stored = "other" THEN NotArray
    ELSE <<>>

\* setCachedPrompts / setCachedFolders: the value localStorage holds afterwards;
\* a throwing setItem is logged and the write dropped
setCached(store, k, list) ==
    IF ~storageWorks THEN store
    ELSE [store EXCEPT ![k] = Stored(list)]

\* createDefaultPrompt(): the default of each field a prompt needs besides its
\* id and title
createDefaultPrompt == [isPinned |-> FALSE, folderId |-> NoFolder, versions |-> <<>>]

\* { ...createDefaultPrompt(), ...p }
withDefaults(p) == Spread(createDefaultPrompt, p)

(***************************************************************************)
(* The API server's routes                                                 *)
(***************************************************************************)
\* POST /prompts, POST /folders: the entity built from the request body
serverCreate(k, body) ==
    IF k = "prompts"
    THEN [id |-> body.id, title |-> body.title,
          isPinned |-> IF Has(body, "isPinned") THEN body.isPinned ELSE FALSE,
          folderId |-> IF Has(body, "folderId") THEN body.folderId ELSE NoFolder,
          versions |-> IF Has(body, "versions") THEN body.versions ELSE <<>>]
    ELSE [id |-> body.id, name |-> body.name]

(***************************************************************************)
(* The database module behind the routes                                   *)
(***************************************************************************)
\* db.createPrompt / db.createFolder throw when the id is already stored
dbCreateThrows(stored, id) == findIndex(stored, id) # 0

\* db.updatePrompt / db.updateFolder: the stored row with the fields of the
\* request body, under the id of the route
dbUpdate(row, id, body) == [Spread(row, body) EXCEPT !.id = id]

\* db.importData: every imported entity is stored as a complete row, in place
\* of the stored row with its id if there is one
RECURSIVE dbImportData(_, _, _)
dbImportData(k, stored, list) ==
    IF list = <<>> THEN stored
    ELSE LET e == serverCreate(k, Head(list))
             at == findIndex(stored, e.id)
         IN  dbImportData(k,
                 IF at # 0 THEN [stored EXCEPT ![at] = e] ELSE Append(stored, e),
                 Tail(list))

\* a response that is not ok (404, 500), or a failure of fetch
Failure == [ok |-> FALSE]

\* the response of the server to a request, and the store it leaves: a missing
\* id is answered with 404 by PUT and DELETE, an exception of the database with
\* 500
serve(store, req) ==
    LET k == req.coll
        at == IF req.method \in {"PUT", "DELETE"} THEN findIndex(store[k], req.id) ELSE 0
    IN  CASE req.method = "GET" ->
               [store |-> store, resp |-> [ok |-> TRUE, body |-> store[k]]]
          [] req.method = "POST" ->
               IF dbCreateThrows(store[k], req.body.id)
               THEN [store |-> store, resp |-> Failure]
               ELSE LET created == serverCreate(k, req.body)
                    IN  [store |-> [store EXCEPT ![k] = Append(@, created)],
                         resp |-> [ok |-> TRUE, body |-> created]]
          [] req.method = "PUT" ->
               IF at = 0 THEN [store |-> store, resp |-> Failure]
               ELSE LET updated == dbUpdate(store[k][at], req.id, req.body)
                    IN  [store |-> [store EXCEPT ![k][at] = updated],
                         resp |-> [ok |-> TRUE, body |-> updated]]
          [] req.method = "DELETE" ->
               IF at = 0 THEN [store |-> store, resp |-> Failure]
               ELSE [store |-> [store EXCEPT ![k] = filterOut(@, req.id)],
                     resp |-> [ok |-> TRUE, body |-> <<>>]]
          [] req.method = "IMPORT" ->
               [store |-> [j \in Kinds |-> dbImportData(j, store[j], req.body[j])],
                resp |-> [ok |-> TRUE, body |-> <<>>]]

SyncIdle ==
    /\ localStorage = [k \in Kinds |-> NoItem]
    /\ storageWorks = TRUE
    /\ remote = [k \in Kinds |-> <<>>]
    /\ calls = <<>>

(***************************************************************************)
(* The template engine applied to a content string                        *)
(***************************************************************************)
\* importData not yet applied; no prompt under edit
NotRun == [run |-> FALSE]

UtilIdle ==
    /\ json = NotRun
    /\ imported = NotRun
    /\ prompt = NotRun
    /\ now = 0

\* the listeners that can register
Listeners == {1, 2}

\* the module state of the API client before any call
ConnIdle ==
    /\ client = "web"
    /\ connectionStatus = "checking"
    /\ connectionListeners = <<>>
    /\ received = [l \in Listeners |-> <<>>]
    /\ connectionCheckInterval = FALSE
    /\ timers = 0
    /\ starts = 0
    /\ probes = <<>>

RestIdle == UtilIdle /\ ConnIdle

TplIdle ==
    /\ content = <<>>
    /\ op = "none"
    /\ variables = <<>>
    /\ values = NoValues
    /\ replaced = <<>>

TplInit ==
    /\ CopyIdle
    /\ SyncIdle
    /\ RestIdle
    /\ \E n \in 0..MaxPieces : \E ps \in [1..n -> Pieces] : content = Flatten(ps)
    /\ op = "none"
    /\ variables = <<>>
    /\ values = NoValues
    /\ replaced = <<>>

Extract ==
    /\ op = "none"
    /\ op' = "extract"
    /\ variables' = extractVariables(content)
    /\ UNCHANGED <<content, values, replaced>>
    /\ UNCHANGED <<copyVars, syncVars, restVars>>

Replace ==
    /\ op = "none"
    /\ \E vals \in ValueMaps :
          /\ values' = vals
          /\ replaced' = replaceVariables(content, vals)
    /\ op' = "replace"
    /\ UNCHANGED <<content, variables>>
    /\ UNCHANGED <<copyVars, syncVars, restVars>>

TplNext == Extract \/ Replace

TplSpec == TplInit /\ [][TplNext]_vars

(***************************************************************************)
(* handleCopy / copyToClipboard / handleCopyWithVariables (bubble App)     *)
(***************************************************************************)
\* extractVariables(prompt.content) of each listed prompt
PromptVariables == [p \in PromptIds |-> extractVariables(BubblePrompts[p])]

\* a dialog that is never shown: every prompt is copied directly
needsDialogNever(vs) == FALSE

\* variables.length > 0
needsDialog(vs) == Len(vs) > 0

\* initialValues[v.name] = v.defaultValue || ''
initialValues(vs) ==
    [n \in { vs[i].name : i \in DOMAIN vs } |->
        LET v == vs[Min({ i \in DOMAIN vs : vs[i].name = n })]
        IN  IF v.defaultValue = Undefined THEN <<>> ELSE v.defaultValue]

\* copyToClipboard(text, promptId) up to its await: the write primitive is
\* called (window.electronAPI.copyToClipboard or navigator.clipboard.writeText)
StartWrite(req, kind, text, promptId) ==
    /\ Len(writes) < MaxWrites
    /\ writes' = Append(writes, [req |-> req, kind |-> kind, text |-> text,
                                 promptId |-> promptId, state |-> "pending"])

\* the history kept of a copy request: its prompt, whether the modal was opened
\* for it, the confirm clicks, whether the modal was cancelled, and whether its
\* handler's promise rejected
NewRequest(p, dialog) ==
    [prompt |-> p, dialog |-> dialog, confirms |-> 0, cancelled |-> FALSE,
     threw |-> FALSE]

\* the copy button of prompt p (rendered in the main panel only)
HandleCopy(p) ==
    /\ ~variableModal.open
    /\ Len(requests) < MaxRequests
    /\ LET vs == PromptVariables[p]
           r == Len(requests) + 1
       IN  IF needsDialog(vs)
           THEN /\ variableValues' = initialValues(vs)
                /\ variableModal' = [open |-> TRUE, prompt |-> p]
                /\ requests' = Append(requests, NewRequest(p, TRUE))
                /\ modalReq' = r
                /\ UNCHANGED writes
           ELSE /\ StartWrite(r, "direct", BubblePrompts[p], p)
                /\ requests' = Append(requests, NewRequest(p, FALSE))
                /\ UNCHANGED <<variableModal, variableValues, modalReq>>
    /\ UNCHANGED <<copiedId, clipboard, webResult>>
    /\ UNCHANGED <<tplVars, syncVars, restVars>>

\* typing into the modal's input of variable n
SetVariableValue(n, text) ==
    /\ variableModal.open
    /\ \E i \in DOMAIN PromptVariables[variableModal.prompt] :
          PromptVariables[variableModal.prompt][i].name = n
    /\ variableValues' = [m \in DOMAIN variableValues \cup {n} |->
                             IF m = n THEN text ELSE variableValues[m]]
    /\ UNCHANGED <<variableModal, copiedId, clipboard, writes,
                   requests, modalReq, webResult>>
    /\ UNCHANGED <<tplVars, syncVars, restVars>>

\* the modal's "Copy with Variables" button, up to the await of the write
HandleCopyWithVariables ==
    /\ variableModal.open
    /\ variableModal.prompt # NoPrompt
    /\ LET text == replaceVariables(BubblePrompts[variableModal.prompt], variableValues)
       IN  /\ StartWrite(modalReq, "variables", text, variableModal.prompt)
           /\ requests' = [requests EXCEPT ![modalReq].confirms = @ + 1]
    /\ UNCHANGED <<variableModal, variableValues, copiedId,
                   clipboard, modalReq, webResult>>
    /\ UNCHANGED <<tplVars, syncVars, restVars>>

\* the modal's close button
CancelModal ==
    /\ variableModal.open
    /\ variableModal' = ClosedModal
    /\ requests' = [requests EXCEPT ![modalReq].cancelled = TRUE]
    /\ UNCHANGED <<variableValues, copiedId, clipboard, writes,
                   modalReq, webResult>>
    /\ UNCHANGED <<tplVars, syncVars, restVars>>

\* the write primitive resolves: the text is on the clipboard, and the handler
\* resumes after its await (setCopiedId, closing the modal); the timer that
\* clears the copied mark 1.5 s later is not modelled
WriteResolves(w) ==
    /\ writes[w].state = "pending"
    /\ writes' = [writes EXCEPT ![w].state = "written"]
    /\ clipboard' = writes[w].text
    /\ copiedId' = writes[w].promptId
    /\ variableModal' = IF writes[w].kind = "variables" THEN ClosedModal
                        ELSE variableModal
    /\ UNCHANGED <<variableValues, requests, modalReq, webResult>>
    /\ UNCHANGED <<tplVars, syncVars, restVars>>

\* the write primitive rejects: the await throws, nothing catches it, and the
\* handler's promise rejects
WriteRejects(w) ==
    /\ writes[w].state = "pending"
    /\ writes' = [writes EXCEPT ![w].state = "rejected"]
    /\ requests' = [requests EXCEPT ![writes[w].req].threw = TRUE]
    /\ UNCHANGED <<variableModal, variableValues, copiedId,
                   clipboard, modalReq, webResult>>
    /\ UNCHANGED <<tplVars, syncVars, restVars>>

(***************************************************************************)
(* copyToClipboard (web clipboard utility)                                 *)
(***************************************************************************)
\* what the browser does with one call: whether navigator.clipboard.writeText
\* exists, whether it rejects, whether the textarea fallback throws, and what
\* document.execCommand('copy') returns
WebEnvs == [hasApi : BOOLEAN, apiRejects : BOOLEAN, fallbackThrows : BOOLEAN,
            execCommand : BOOLEAN]

\* the result of copyToClipboard(text): returned is the promise's value, and
\* wrote tells whether text reached the clipboard
copyToClipboard(text, env) ==
    IF text = <<>> THEN [called |-> TRUE, returned |-> FALSE, wrote |-> FALSE]
    ELSE IF env.hasApi /\ ~env.apiRejects
         THEN [called |-> TRUE, returned |-> TRUE, wrote |-> TRUE]
    ELSE IF env.fallbackThrows
         THEN [called |-> TRUE, returned |-> FALSE, wrote |-> FALSE]
    ELSE [called |-> TRUE, returned |-> env.execCommand, wrote |-> env.execCommand]

WebCopy(text, env) ==
    /\ webResult' = copyToClipboard(text, env)
    /\ clipboard' = IF webResult'.wrote THEN text ELSE clipboard
    /\ UNCHANGED <<variableModal, variableValues, copiedId, writes,
                   requests, modalReq>>
    /\ UNCHANGED <<tplVars, syncVars, restVars>>

CopyInit == TplIdle /\ CopyIdle /\ SyncIdle /\ RestIdle

CopyNext ==
    \/ \E p \in PromptIds : HandleCopy(p)
    \/ \E n \in ValueNames, text \in TypedTexts : SetVariableValue(n, text)
    \/ HandleCopyWithVariables
    \/ CancelModal
    \/ \E w \in DOMAIN writes : WriteResolves(w)
    \/ \E w \in DOMAIN writes : WriteRejects(w)

CopySpec == CopyInit /\ [][CopyNext]_vars

\* the web app's use of its clipboard utility
WebCopyNext == \E text \in {<<>>, <<"a">>, <<"b">>}, env \in WebEnvs : WebCopy(text, env)

WebCopySpec == CopyInit /\ [][WebCopyNext]_vars

(***************************************************************************)
(* The storage service: loadPromptsAsync / loadFoldersAsync,               *)
(* savePromptAsync / saveFolderAsync, deletePromptAsync / deleteFolderAsync *)
(***************************************************************************)
NoResp == [ok |-> FALSE, none |-> TRUE]
NoResult == <<"pending">>

NewCall(op2, req) ==
    [op |-> op2, req |-> req, stage |-> "sent", resp |-> NoResp, result |-> NoResult]

\* loadPromptsAsync / loadFoldersAsync up to the await of api.fetchPrompts()
LoadAsync(k) ==
    /\ Len(calls) < MaxCalls
    /\ calls' = Append(calls, NewCall("load", [coll |-> k, method |-> "GET"]))
    /\ UNCHANGED <<localStorage, storageWorks, remote>>
    /\ UNCHANGED <<tplVars, copyVars, restVars>>

\* an update for every entity, whatever the cache holds
saveMethodAlwaysPut(k, e) == "PUT"

\* existing ? updatePromptApi : createPromptApi, existing looked up in the cache
saveMethod(k, e) == IF findIndex(getCached(k), e.id) # 0 THEN "PUT" ELSE "POST"

\* savePromptAsync / saveFolderAsync up to the await of the API call
SaveAsync(k, e) ==
    /\ Len(calls) < MaxCalls
    /\ calls' = Append(calls, NewCall("save",
                   [coll |-> k, method |-> saveMethod(k, e), id |-> e.id, body |-> e]))
    /\ UNCHANGED <<localStorage, storageWorks, remote>>
    /\ UNCHANGED <<tplVars, copyVars, restVars>>

\* deletePromptAsync / deleteFolderAsync up to the await of the API call
DeleteAsync(k, id) ==
    /\ Len(calls) < MaxCalls
    /\ calls' = Append(calls, NewCall("delete",
                   [coll |-> k, method |-> "DELETE", id |-> id]))
    /\ UNCHANGED <<localStorage, storageWorks, remote>>
    /\ UNCHANGED <<tplVars, copyVars, restVars>>

\* the parsed JSON of an import file: text that does not parse ("invalid"), a
\* value that is no array and has no prompts ("other"), an object whose prompts
\* property is no array ("objectNoArray"), an array, or an object (an envelope)
\* with an array of prompts and some of the fields version, folders
ImportInputs ==
    { [kind |-> "invalid"],
      [kind |-> "array", items |-> <<LegacyPrompt(1, "t2")>>],
      [kind |-> "object",
       obj |-> [version |-> 2, prompts |-> <<LegacyPrompt(2, "t2")>>,
                folders |-> <<Folder(1, "t2")>>]] }

\* a migration that keeps the fields a prompt already has
migrateOneKeep(p) == Spread([isPinned |-> FALSE, folderId |-> NoFolder, versions |-> <<>>], p)

\* migrateToV2: { ...p, isPinned: false, folderId: null, versions: [] }
migrateOne(p) == Spread(p, [isPinned |-> FALSE, folderId |-> NoFolder, versions |-> <<>>])
migrateToV2(legacyPrompts) == MapSeq(migrateOne, legacyPrompts)

\* importData: null, or the prompts and folders of the file
NoImport == [null |-> TRUE]

importData(data) ==
    IF data.kind \in {"invalid", "other", "objectNoArray"} THEN NoImport
    ELSE IF data.kind = "array"
         THEN [prompts |-> migrateToV2(data.items), folders |-> <<>>]
    ELSE IF Has(data.obj, "prompts")
         THEN [prompts |-> IF Has(data.obj, "version") /\ data.obj.version < 2
                           THEN migrateToV2(data.obj.prompts)
                           ELSE data.obj.prompts,
               folders |-> IF Has(data.obj, "folders") THEN data.obj.folders ELSE <<>>]
    ELSE NoImport

\* importDataToApi up to the await of api.importDataApi (or to its early return)
ImportDataToApi(data) ==
    /\ Len(calls) < MaxCalls
    /\ LET parsed == importData(data)
       IN  calls' = Append(calls,
               IF parsed = NoImport
               THEN [NewCall("import", [coll |-> "import", method |-> "NONE"])
                        EXCEPT !.stage = "resolved", !.result = FALSE]
               ELSE NewCall("import",
                        [coll |-> "import", method |-> "IMPORT", body |-> parsed]))
    /\ UNCHANGED <<localStorage, storageWorks, remote>>
    /\ UNCHANGED <<tplVars, copyVars, restVars>>

\* the server handles the request of call c and answers
ServerHandles(c) ==
    /\ calls[c].stage = "sent"
    /\ LET out == serve(remote, calls[c].req)
       IN  /\ remote' = out.store
           /\ calls' = [calls EXCEPT ![c].stage = "replied", ![c].resp = out.resp]
    /\ UNCHANGED <<localStorage, storageWorks>>
    /\ UNCHANGED <<tplVars, copyVars, restVars>>

\* an upsert that always pushes
upsertPush(cached, saved) == Append(cached, saved)

\* a cache update that keeps only the saved entity
upsertAlone(cached, saved) == <<saved>>

\* the cache update of savePromptAsync: replace at the index of saved.id, or push
upsert(cached, saved) ==
    LET index == findIndex(cached, saved.id)
    IN  IF index # 0 THEN [cached EXCEPT ![index] = saved] ELSE Append(cached, saved)

\* a fallback that forgets the cache
loadFallbackEmpty(k) == <<>>

\* the catch branch of loadPromptsAsync / loadFoldersAsync
loadFallback(k) ==
    IF k = "prompts" THEN MapSeq(withDefaults, getCached(k)) ELSE getCached(k)

\* a delete that updates the cache whatever the server answered
deletedOkAlways(resp) == TRUE

\* whether the cache update of deletePromptAsync is reached
deletedOk(resp) == resp.ok

\* a save whose failure is swallowed
saveStageResolved(resp) == "resolved"

\* how savePromptAsync ends: it returns saved, or rethrows the API error
saveStage(resp) == IF resp.ok THEN "resolved" ELSE "rejected"

(***************************************************************************)
(* migrateLocalStorageToApi                                                *)
(***************************************************************************)
\* the keys of the old format and the keys their backups are written to
OldKey == [prompts |-> "promptvault-prompts", folders |-> "promptvault-folders"]
BackupKey == [prompts |-> "promptvault-migrated-prompts-backup",
              folders |-> "promptvault-migrated-folders-backup"]

\* what a key of the old format can hold
LegacyValues(k) ==
    { NoItem, Garbage, Stored(<<>>) }
    \cup (IF k = "prompts"
          THEN { Stored(<<LegacyPrompt(1, "t1")>>),
                 Stored(<<Prompt(1, "t1"), LegacyPrompt(2, "t1")>>) }
          ELSE { Stored(<<Folder(1, "t1")>>) })

\* rawPrompts / rawFolders: the item of the old key, null when there is none
rawOf(k) == localStorage[OldKey[k]]

\* JSON.parse(raw) throws
parseThrows(raw) == raw.stored = "garbage"

\* prompts: [] without the key, else the parsed list, migrated when its first
\* element has no isPinned
legacyPrompts(raw) ==
    IF raw = NoItem THEN <<>>
    ELSE IF Len(raw.list) > 0 /\ ~Has(raw.list[1], "isPinned") THEN migrateToV2(raw.list)
    ELSE raw.list

\* folders: [] without the key, else the parsed list
legacyFolders(raw) == IF raw = NoItem THEN <<>> ELSE raw.list

\* a migration that writes the backups and leaves the old keys
migrateDoneKeepKeys(store, raw) ==
    [key \in DOMAIN store |->
        IF \E k \in Kinds : key = BackupKey[k]
        THEN LET k == CHOOSE j \in Kinds : key = BackupKey[j]
             IN  IF raw[k] = NoItem THEN Stored(<<>>) ELSE raw[k]
        ELSE store[key]]

\* after the import: setItem(backup key, raw || '[]') for both, then
\* removeItem(old key) for both
migrateDone(store, raw) ==
    [key \in DOMAIN store |->
        IF \E k \in Kinds : key = BackupKey[k]
        THEN LET k == CHOOSE j \in Kinds : key = BackupKey[j]
             IN  IF raw[k] = NoItem THEN Stored(<<>>) ELSE raw[k]
        ELSE IF \E k \in Kinds : key = OldKey[k] THEN NoItem
        ELSE store[key]]

\* migrateLocalStorageToApi up to the await of api.importDataApi, or to its
\* return of false: nothing to migrate, a parse failure, or empty lists
MigrateLocalStorageToApi ==
    /\ Len(calls) < MaxCalls
    /\ LET raw == [k \in Kinds |-> rawOf(k)]
           found == \E k \in Kinds : raw[k] # NoItem
           early == [NewCall("migrate", [coll |-> "import", method |-> "NONE",
                                         found |-> found, raw |-> raw])
                        EXCEPT !.stage = "resolved", !.result = FALSE]
       IN  calls' = Append(calls,
               IF ~found \/ \E k \in Kinds : parseThrows(raw[k]) THEN early
               ELSE LET prompts == legacyPrompts(raw.prompts)
                        folders == legacyFolders(raw.folders)
                    IN  IF Len(prompts) > 0 \/ Len(folders) > 0
                        THEN NewCall("migrate",
                                 [coll |-> "import", method |-> "IMPORT",
                                  found |-> found, raw |-> raw,
                                  body |-> [prompts |-> prompts, folders |-> folders]])
                        ELSE early)
    /\ UNCHANGED <<localStorage, storageWorks, remote>>
    /\ UNCHANGED <<tplVars, copyVars, restVars>>

\* an import that caches the prompts only
importCachesPromptsOnly(store, parsed) == setCached(store, "prompts", parsed.prompts)

\* the cache writes of importDataToApi: setCachedPrompts(parsed.prompts), then
\* setCachedFolders(parsed.folders)
importCaches(store, parsed) ==
    setCached(setCached(store, "prompts", parsed.prompts), "folders", parsed.folders)

\* the rest of call c once its API call has settled with resp (a response of
\* the server, or a failure of fetch): localStorage and the call afterwards
Settle(c, resp) ==
    LET k == calls[c].req.coll
        done(stage, result) ==
            [calls EXCEPT ![c].stage = stage, ![c].resp = resp, ![c].result = result]
    IN  CASE calls[c].op = "load" ->
               IF resp.ok
               THEN /\ localStorage' = setCached(localStorage, k, resp.body)
                    /\ calls' = done("resolved",
                           IF k = "prompts" THEN MapSeq(withDefaults, resp.body)
                           ELSE resp.body)
               ELSE /\ localStorage' = localStorage
                    /\ calls' = done("resolved", loadFallback(k))
          [] calls[c].op = "save" ->
               IF resp.ok
               THEN /\ localStorage' = setCached(localStorage, k,
                                                  upsert(getCached(k), resp.body))
                    /\ calls' = done(saveStage(resp), resp.body)
               ELSE /\ localStorage' = localStorage
                    /\ calls' = done(saveStage(resp), NoResult)
          [] calls[c].op = "import" ->
               IF resp.ok
               THEN /\ localStorage' = importCaches(localStorage, calls[c].req.body)
                    /\ calls' = done("resolved", TRUE)
               ELSE /\ localStorage' = localStorage
                    /\ calls' = done("resolved", FALSE)
          [] calls[c].op = "migrate" ->
               IF resp.ok
               THEN /\ localStorage' = migrateDone(localStorage, calls[c].req.raw)
                    /\ calls' = done("resolved", TRUE)
               ELSE /\ localStorage' = localStorage
                    /\ calls' = done("resolved", FALSE)
          [] calls[c].op = "delete" ->
               IF deletedOk(resp)
               THEN /\ localStorage' = setCached(localStorage, k,
                                          filterOut(getCached(k), calls[c].req.id))
                    /\ calls' = done("resolved", NoResult)
               ELSE /\ localStorage' = localStorage
                    /\ calls' = done("rejected", NoResult)

\* the response of the server reaches the client
ResponseArrives(c) ==
    /\ calls[c].stage = "replied"
    /\ Settle(c, calls[c].resp)
    /\ UNCHANGED <<storageWorks, remote>>
    /\ UNCHANGED <<tplVars, copyVars, restVars>>

\* fetch fails: the request or its response is lost
NetworkFails(c) ==
    /\ calls[c].stage \in {"sent", "replied"}
    /\ Settle(c, Failure)
    /\ UNCHANGED <<storageWorks, remote>>
    /\ UNCHANGED <<tplVars, copyVars, restVars>>

SyncInit ==
    /\ TplIdle
    /\ CopyIdle
    /\ RestIdle
    /\ \E seed \in Seeds :
          /\ remote = seed.remote
          /\ localStorage = IF seed.cached THEN [k \in Kinds |-> Stored(SeedData[k])]
                            ELSE [k \in Kinds |-> NoItem]
    /\ storageWorks = TRUE
    /\ calls = <<>>

SyncNext ==
    \/ \E k \in Kinds : LoadAsync(k)
    \/ \E k \in Kinds : \E e \in SaveInputs(k) : SaveAsync(k, e)
    \/ \E k \in Kinds : \E id \in Ids(k) : DeleteAsync(k, id)
    \/ \E data \in ImportInputs : ImportDataToApi(data)
    \/ \E c \in DOMAIN calls : ServerHandles(c)
    \/ \E c \in DOMAIN calls : ResponseArrives(c)
    \/ \E c \in DOMAIN calls : NetworkFails(c)

SyncSpec == SyncInit /\ [][SyncNext]_vars

(***************************************************************************)
(* Claims about the copy workflow                                          *)
(***************************************************************************)
\* the clipboard writes started for copy request r, and those that succeeded
WritesOf(r) == { w \in DOMAIN writes : writes[w].req = r }
WrittenOf(r) == { w \in WritesOf(r) : writes[w].state = "written" }

\* C4: a copy request for a prompt without variables passes the prompt's content
\* unmodified to the clipboard writer and never opens the values dialog; for a
\* prompt with variables no clipboard write is started before the dialog is
\* confirmed.
C4_DirectCopyOrDialogFirst ==
    \A r \in DOMAIN requests :
        LET q == requests[r]
        IN  IF PromptVariables[q.prompt] = <<>>
            THEN /\ ~q.dialog
                 /\ Cardinality(WritesOf(r)) = 1
                 /\ \A w \in WritesOf(r) : writes[w].text = BubblePrompts[q.prompt]
            ELSE /\ q.dialog
                 /\ Cardinality(WritesOf(r)) <= q.confirms

\* one request copied directly, another went through the dialog and was copied
C4_Witness ==
    \E r1, r2 \in DOMAIN requests :
        /\ ~requests[r1].dialog
        /\ WrittenOf(r1) # {}
        /\ requests[r2].dialog
        /\ requests[r2].confirms = 1
        /\ WrittenOf(r2) # {}

\* C5: a copy request leads to at most one clipboard write (exactly one when it
\* succeeds) and to none when the values dialog is cancelled, under any
\* interleaving of confirm clicks, cancel clicks and pending writes.
C5_OneWritePerRequest ==
    \A r \in DOMAIN requests :
        /\ Cardinality(WrittenOf(r)) <= 1
        /\ requests[r].cancelled => WrittenOf(r) = {}

\* C6: a clipboard-write failure ends the copy operation with a failure outcome;
\* no copy operation throws.
C6_WriteFailureNeverThrown ==
    \A r \in DOMAIN requests : ~requests[r].threw

(***************************************************************************)
(* Claims about the template engine                                        *)
(***************************************************************************)
\* the trimmed name of the k-th placeholder of the content
NameOf(k) == trim(Matches(content)[k].g1)

\* the first placeholder of the content that carries the name n
FirstOf(n) == Min({ k \in 1..Len(Matches(content)) : NameOf(k) = n })

\* C1: extractVariables returns each distinct trimmed placeholder name exactly
\* once, in order of first appearance, with the trimmed default of the name's
\* first occurrence (undefined when that occurrence has none).
C1_ExtractFirstOccurrence ==
    op = "extract" =>
        LET ms == Matches(content)
        IN  /\ { variables[i].name : i \in DOMAIN variables }
                  = { NameOf(k) : k \in 1..Len(ms) }
            /\ \A i, j \in DOMAIN variables :
                  i < j => /\ variables[i].name # variables[j].name
                           /\ FirstOf(variables[i].name) < FirstOf(variables[j].name)
            /\ \A i \in DOMAIN variables :
                  LET m == ms[FirstOf(variables[i].name)]
                  IN  variables[i].defaultValue
                        = IF m.g2 = Undefined THEN Undefined ELSE trim(m.g2)

\* a name occurs twice, first without a default and then with one
C1_Witness ==
    /\ op = "extract"
    /\ Len(Matches(content)) = 2
    /\ Len(variables) = 1
    /\ variables[1].defaultValue = Undefined
    /\ Matches(content)[2].g2 # Undefined

\* the positions of s that belong to a default annotation (the colon and the
\* default text of a placeholder)
DefaultPositions(s) ==
    UNION { IF m.g2 = Undefined THEN {}
            ELSE (m.index + 2 + Len(m.g1))..(m.end - 3)
            : m \in { Matches(s)[k] : k \in 1..Len(Matches(s)) } }

\* the positions of s that hold whitespace around a placeholder's name
PaddingPositions(s) ==
    UNION { LET ns == m.index + 2
                ne == m.index + 1 + Len(m.g1)
            IN  { p \in ns..ne : (\A q \in ns..p : IsSpace(s[q]))
                                  \/ (\A r \in p..ne : IsSpace(s[r])) }
            : m \in { Matches(s)[k] : k \in 1..Len(Matches(s)) } }

\* s without the characters at the positions D
RECURSIVE WithoutFrom(_, _, _)
WithoutFrom(s, p, D) ==
    IF p > Len(s) THEN <<>>
    ELSE (IF p \in D THEN <<>> ELSE <<s[p]>>) \o WithoutFrom(s, p + 1, D)

Without(s, D) == WithoutFrom(s, 1, D)

C3_Emitted(k) ==
    IF NameOf(k) \in DOMAIN values THEN values[NameOf(k)]
    ELSE <<"{", "{">> \o NameOf(k) \o <<"}", "}">>

\* the text between the k-th placeholder and the next (k = 0: before the first)
C3_Gap(k) ==
    LET ms == Matches(content)
        from == IF k = 0 THEN 1 ELSE ms[k].end
        to == IF k = Len(ms) THEN Len(content) ELSE ms[k + 1].index - 1
    IN  SubSeq(content, from, to)

RECURSIVE C3_Expected(_)
C3_Expected(k) ==
    IF k = 0 THEN C3_Gap(0)
    ELSE C3_Expected(k - 1) \o C3_Emitted(k) \o C3_Gap(k)

Awaiting(c) == c \in DOMAIN calls /\ calls[c].stage \in {"sent", "replied"}

\* this step ends call c of operation o, its API call having succeeded (ok) or
\* failed
Ends(c, o, ok) ==
    /\ Awaiting(c)
    /\ calls[c].op = o
    /\ calls'[c].stage \in {"resolved", "rejected"}
    /\ calls'[c].resp.ok = ok

\* the entries of a list whose id is not id, in order
Others(list, id) == SelectSeq(list, LAMBDA e : e.id # id)

\* the positions of the entries of a list whose id is id
Same(list, id) == { i \in DOMAIN list : list[i].id = id }

\* result is the cached list with every prompt completed: same length and
\* order, every field of a cached prompt kept, no field of a prompt missing
Completed(result, cached) ==
    /\ Len(result) = Len(cached)
    /\ \A i \in DOMAIN cached :
          /\ DOMAIN createDefaultPrompt \subseteq DOMAIN result[i]
          /\ \A f \in DOMAIN cached[i] : Has(result[i], f) /\ result[i][f] = cached[i][f]

\* C7 as stated: when the remote fetch fails, loadPromptsAsync / loadFoldersAsync
\* do not raise, return exactly the list the local cache holds, and leave the
\* local cache unchanged.
C7_FallbackReturnsCacheExactly ==
    [][\A c \in DOMAIN calls :
          Ends(c, "load", FALSE) =>
              /\ calls'[c].stage = "resolved"
              /\ calls'[c].result = getCached(calls[c].req.coll)
              /\ localStorage' = localStorage]_vars

\* C7 amended: when the remote fetch fails, loadFoldersAsync returns exactly the
\* cached folders and loadPromptsAsync returns the cached prompts in order, each
\* keeping every field it has and completed with the fields it lacks; neither
\* raises and the local cache is unchanged.
C7_FallbackReturnsCacheCompleted ==
    [][\A c \in DOMAIN calls :
          Ends(c, "load", FALSE) =>
              /\ calls'[c].stage = "resolved"
              /\ IF calls[c].req.coll = "folders"
                 THEN calls'[c].result = getCached("folders")
                 ELSE Completed(calls'[c].result, getCached("prompts"))
              /\ localStorage' = localStorage]_vars

\* a load of the prompts has failed and returned the cached prompts, one of
\* which lacks a field in the cache and has it in the result
C7_Witness ==
    \E c \in DOMAIN calls :
       /\ calls[c].op = "load" /\ calls[c].req.coll = "prompts"
       /\ calls[c].stage = "resolved" /\ ~calls[c].resp.ok
       /\ Completed(calls[c].result, getCached("prompts"))
       /\ \E i \in DOMAIN calls[c].result :
             ~Has(getCached("prompts")[i], "versions") /\ Has(calls[c].result[i], "versions")

\* C8: after a successful savePromptAsync / saveFolderAsync the local cache has
\* exactly one entry with the id of the entity the remote store returned, that
\* entry is the returned entity (appended if the id was absent, put in the place
\* of the entry with that id if present), and the entries with other ids are
\* unchanged.
C8_SaveUpsertsReturnedEntity ==
    [][\A c \in DOMAIN calls :
          Ends(c, "save", TRUE) =>
              LET k == calls[c].req.coll
                  saved == calls'[c].result
                  before == getCached(k)
                  after == getCached(k)'
                  at == findIndex(before, saved.id)
              IN  /\ calls'[c].stage = "resolved"
                  /\ saved = calls'[c].resp.body
                  /\ Cardinality(Same(after, saved.id)) = 1
                  /\ \A i \in Same(after, saved.id) : after[i] = saved
                  /\ IF at = 0 THEN after = Append(before, saved)
                     ELSE Len(after) = Len(before) /\ after[at] = saved
                  /\ Others(after, saved.id) = Others(before, saved.id)]_vars

\* two saves of prompts have succeeded, one an update and one a creation, and
\* the cache holds both prompts as the remote store returned them
C8_Witness ==
    \E c, d \in DOMAIN calls :
       /\ calls[c].op = "save" /\ calls[c].req.coll = "prompts"
       /\ calls[c].stage = "resolved" /\ calls[c].req.method = "PUT"
       /\ calls[d].op = "save" /\ calls[d].req.coll = "prompts"
       /\ calls[d].stage = "resolved" /\ calls[d].req.method = "POST"
       /\ Len(getCached("prompts")) = 2
       /\ \E i, j \in DOMAIN getCached("prompts") :
             /\ getCached("prompts")[i] = calls[c].result
             /\ getCached("prompts")[j] = calls[d].result

\* C9: when the remote create or update of savePromptAsync / saveFolderAsync
\* fails the operation rejects, and no step of the operation (its start, the
\* server's handling, the failure) changes the local cache.
C9_SaveFailureRejects ==
    [][/\ \A c \in DOMAIN calls :
             Ends(c, "save", FALSE) =>
                 calls'[c].stage = "rejected" /\ localStorage' = localStorage
       /\ \A c \in DOMAIN calls' :
             (/\ calls'[c].op = "save"
              /\ calls'[c].stage # "resolved"
              /\ (c \in DOMAIN calls => calls[c] # calls'[c]))
                 => localStorage' = localStorage]_vars

\* a save has been rejected, the cache holding entries of its collection
C9_Witness ==
    \E c \in DOMAIN calls :
       /\ calls[c].op = "save" /\ calls[c].stage = "rejected"
       /\ ~calls[c].resp.ok
       /\ getCached(calls[c].req.coll) # <<>>

\* C10: deletePromptAsync / deleteFolderAsync resolve exactly when the remote
\* delete succeeds; then no cache entry with the id remains and the other
\* entries are unchanged; when the remote delete fails the operation rejects
\* and the cache is unchanged.
C10_DeleteRemovesOnSuccessOnly ==
    [][\A c \in DOMAIN calls :
          LET k == calls[c].req.coll
              id == calls[c].req.id
          IN  /\ Ends(c, "delete", TRUE) =>
                    /\ calls'[c].stage = "resolved"
                    /\ Same(getCached(k)', id) = {}
                    /\ getCached(k)' = Others(getCached(k), id)
                    /\ \A j \in Kinds \ {k} : getCached(j)' = getCached(j)
              /\ Ends(c, "delete", FALSE) =>
                    /\ calls'[c].stage = "rejected"
                    /\ localStorage' = localStorage]_vars

\* a delete has succeeded and removed its id from a cache that still holds
\* another entry
C10_Witness ==
    \E c \in DOMAIN calls :
       /\ calls[c].op = "delete" /\ calls[c].stage = "resolved" /\ calls[c].resp.ok
       /\ getCached(calls[c].req.coll) # <<>>
       /\ Same(getCached(calls[c].req.coll), calls[c].req.id) = {}

\* call c has resolved a save of collection k whose returned entity the cache
\* holds
SavedInCache(c, k) ==
    /\ calls[c].op = "save" /\ calls[c].req.coll = k
    /\ calls[c].stage = "resolved"
    /\ \E i \in DOMAIN getCached(k) : getCached(k)[i] = calls[c].result

\* this step completes a write through the storage service for id of
\* collection k: a save or delete of that id, or an import
WritesId(k, id) ==
    \E c \in DOMAIN calls :
       \/ Ends(c, "import", TRUE)
       \/ /\ Ends(c, "save", TRUE) \/ Ends(c, "delete", TRUE)
          /\ calls[c].req.coll = k /\ calls[c].req.id = id

\* C11: once a save of an id has succeeded, the cache holds the saved entity
\* until a later successful save, delete or import for that id: no other step
\* makes the cache lose it or hold another version of it.
C11_CacheNeverStale ==
    [][\A c \in DOMAIN calls : \A k \in Kinds :
          (SavedInCache(c, k) /\ ~WritesId(k, calls[c].req.id)) =>
              \E i \in DOMAIN getCached(k)' : getCached(k)'[i] = calls[c].result]_vars

(***************************************************************************)
(* Round trip: a load issued once a save has resolved                      *)
(***************************************************************************)
\* the saves that have resolved
ResolvedSaves == { d \in DOMAIN calls : calls[d].op = "save" /\ calls[d].stage = "resolved" }

\* loadPromptsAsync / loadFoldersAsync called after a save has resolved, up to
\* the await of the fetch; the call remembers the saves it follows
LoadAfterSave(k) ==
    /\ Len(calls) < MaxCalls + 1
    /\ ResolvedSaves # {}
    /\ calls' = Append(calls, NewCall("load",
                   [coll |-> k, method |-> "GET", after |-> ResolvedSaves]))
    /\ UNCHANGED <<localStorage, storageWorks, remote>>
    /\ UNCHANGED <<tplVars, copyVars, restVars>>

\* loads, saves and deletes in any interleaving, without imports
RoundTripNext ==
    \/ \E k \in Kinds : LoadAsync(k)
    \/ \E k \in Kinds : \E e \in SaveInputs(k) : SaveAsync(k, e)
    \/ \E k \in Kinds : \E id \in Ids(k) : DeleteAsync(k, id)
    \/ \E k \in Kinds : LoadAfterSave(k)
    \/ \E c \in DOMAIN calls : ServerHandles(c)
    \/ \E c \in DOMAIN calls : ResponseArrives(c)
    \/ \E c \in DOMAIN calls : NetworkFails(c)

RoundTripSpec == SyncInit /\ [][RoundTripNext]_vars

\* no other save and no delete of the id of save d has been issued
OnlyWriteOfItsId(d) ==
    \A e \in DOMAIN calls \ {d} :
       ~(/\ calls[e].op \in {"save", "delete"}
         /\ calls[e].req.coll = calls[d].req.coll
         /\ calls[e].req.id = calls[d].req.id)

\* C12: a load issued after the successful save of a new entity, with no delete
\* (and no other save) of its id, returns a list that contains the entity as
\* the server returned it, whether the fetch succeeds or falls back to the
\* cache.
C12_LoadAfterSaveContainsEntity ==
    [][\A c \in DOMAIN calls :
          (/\ Ends(c, "load", TRUE) \/ Ends(c, "load", FALSE)
           /\ Has(calls[c].req, "after"))
          => \A d \in calls[c].req.after :
                (/\ calls[d].req.coll = calls[c].req.coll
                 /\ calls[d].req.method = "POST"
                 /\ OnlyWriteOfItsId(d))
                => \E i \in DOMAIN calls'[c].result :
                      calls'[c].result[i] = calls[d].result]_vars

(***************************************************************************)
(* Claims about import                                                     *)
(***************************************************************************)
\* C13: importDataToApi sends the parsed batch in one request; when the request
\* succeeds both caches hold exactly the imported prompts and folders and the
\* call returns true; when the file does not parse no request is made, and when
\* the request fails, the call returns false and neither cache is modified.
C13_ImportReplacesCachesOrNothing ==
    [][\A c \in DOMAIN calls' :
          calls'[c].op = "import" =>
             /\ c \notin DOMAIN calls =>
                   /\ localStorage' = localStorage
                   /\ IF calls'[c].req.method = "NONE"
                      THEN calls'[c].stage = "resolved" /\ calls'[c].result = FALSE
                      ELSE /\ calls'[c].stage = "sent"
                           /\ DOMAIN calls'[c].req.body = Kinds
             /\ (c \in DOMAIN calls /\ Ends(c, "import", TRUE)) =>
                   /\ calls'[c].stage = "resolved" /\ calls'[c].result = TRUE
                   /\ \A k \in Kinds : localStorage'[k] = Stored(calls[c].req.body[k])
             /\ (c \in DOMAIN calls /\ Ends(c, "import", FALSE)) =>
                   /\ calls'[c].stage = "resolved" /\ calls'[c].result = FALSE
                   /\ localStorage' = localStorage
             /\ (c \in DOMAIN calls /\ ~Awaiting(c)) => calls'[c] = calls[c]]_vars

\* an import has returned true and the caches, which held other data before,
\* hold the imported prompts and folders
C13_Witness ==
    \E c \in DOMAIN calls :
       /\ calls[c].op = "import" /\ calls[c].stage = "resolved" /\ calls[c].result = TRUE
       /\ calls[c].req.body.folders # <<>>
       /\ \A k \in Kinds : localStorage[k] = Stored(calls[c].req.body[k])
       /\ \E d \in DOMAIN calls :
             calls[d].op = "import" /\ calls[d].stage = "resolved" /\ calls[d].result = FALSE

(***************************************************************************)
(* importData on the files a user can pick                                 *)
(***************************************************************************)
\* files hold at most MaxItems prompts
MaxItems == 2

\* a prompt that is pinned, in a folder and has a saved version
PinnedPrompt(id, title) ==
    [id |-> id, title |-> title, isPinned |-> TRUE, folderId |-> 1,
     versions |-> <<[title |-> "t0", savedAt |-> 0]>>]

\* the prompts a file can list
FilePrompts == { LegacyPrompt(1, "t1"), Prompt(1, "t1"), PinnedPrompt(2, "t1") }

FileLists == UNION { [1..n -> FilePrompts] : n \in 0..MaxItems }

\* an envelope: version, prompts and folders are each present or not
Envelopes ==
    LET base == { [exportedAt |-> 0] }
        withVersion == base \cup { Spread(o, [version |-> v]) : o \in base, v \in {1, 2, 3} }
        withPrompts == { Spread(o, [prompts |-> l]) : o \in withVersion, l \in FileLists }
        all == withVersion \cup withPrompts
    IN  all \cup { Spread(o, [folders |-> f]) : o \in all, f \in {<<>>, <<Folder(1, "t1")>>} }

\* the parsed texts handed to importData
ImportFiles ==
    { [kind |-> "invalid"], [kind |-> "other"], [kind |-> "objectNoArray"] }
    \cup { [kind |-> "array", items |-> l] : l \in FileLists }
    \cup { [kind |-> "object", obj |-> o] : o \in Envelopes }

ImportInit ==
    /\ TplIdle /\ CopyIdle /\ SyncIdle /\ ConnIdle
    /\ json \in ImportFiles
    /\ imported = NotRun
    /\ prompt = NotRun
    /\ now = 0

\* importData(jsonString)
ImportData ==
    /\ imported = NotRun
    /\ imported' = importData(json)
    /\ UNCHANGED <<json, prompt, now>>
    /\ UNCHANGED <<tplVars, copyVars, syncVars, connVars>>

ImportSpec == ImportInit /\ [][ImportData]_vars

\* importData accepted the file
Accepted == imported # NotRun /\ imported # NoImport

\* the file is of a legacy form: a bare array, or an envelope of version < 2
LegacyForm ==
    \/ json.kind = "array"
    \/ json.kind = "object" /\ Has(json.obj, "version") /\ json.obj.version < 2

\* the prompts the file lists
Given == IF json.kind = "array" THEN json.items ELSE json.obj.prompts

\* p has the fields of version 2 with the values the migration gives them
Migrated(p) ==
    /\ Has(p, "isPinned") /\ p.isPinned = FALSE
    /\ Has(p, "folderId") /\ p.folderId = NoFolder
    /\ Has(p, "versions") /\ p.versions = <<>>

\* C14 as stated: a legacy form is migrated, a version-2 envelope is returned
\* as given, and every prompt importData returns has the fields isPinned,
\* folderId and versions.
C14_EveryImportedPromptComplete ==
    Accepted =>
       /\ LegacyForm => \A i \in DOMAIN imported.prompts : Migrated(imported.prompts[i])
       /\ (json.kind = "object" /\ Has(json.obj, "version") /\ json.obj.version = 2)
             => imported.prompts = Given
       /\ \A i \in DOMAIN imported.prompts :
             {"isPinned", "folderId", "versions"} \subseteq DOMAIN imported.prompts[i]

\* C14 amended: a legacy form (bare array, envelope of version < 2) is migrated:
\* its prompts are returned in order with isPinned = false, folderId = null,
\* versions = [] and their other fields kept; every other accepted envelope
\* (version 2 or more, or none) has its prompts returned as given, whatever
\* fields they have.
C14_LegacyMigratedOthersAsGiven ==
    Accepted =>
       IF LegacyForm
       THEN /\ Len(imported.prompts) = Len(Given)
            /\ \A i \in DOMAIN Given :
                  /\ Migrated(imported.prompts[i])
                  /\ \A f \in DOMAIN Given[i] \ {"isPinned", "folderId", "versions"} :
                        imported.prompts[i][f] = Given[i][f]
       ELSE imported.prompts = Given

\* importData has migrated a version-1 envelope that lists a pinned prompt, and
\* the prompt is returned unpinned
C14_Witness ==
    /\ Accepted
    /\ json.kind = "object" /\ Has(json.obj, "version") /\ json.obj.version = 1
    /\ \E i \in DOMAIN Given : Has(Given[i], "isPinned") /\ Given[i].isPinned /\ ~imported.prompts[i].isPinned

(***************************************************************************)
(* Claims about the legacy migration                                       *)
(***************************************************************************)
\* a browser profile with any old-format data, no cache and no backup, and an
\* empty server
MigrateInit ==
    /\ TplIdle /\ CopyIdle /\ RestIdle
    /\ \E old \in [Kinds -> UNION { LegacyValues(k) : k \in Kinds }] :
          /\ \A k \in Kinds : old[k] \in LegacyValues(k)
          /\ localStorage =
                [key \in Kinds \cup { OldKey[k] : k \in Kinds } \cup { BackupKey[k] : k \in Kinds } |->
                    IF \E k \in Kinds : key = OldKey[k]
                    THEN old[CHOOSE k \in Kinds : key = OldKey[k]]
                    ELSE NoItem]
    /\ storageWorks = TRUE
    /\ remote = NoData
    /\ calls = <<>>

MigrateNext ==
    \/ MigrateLocalStorageToApi
    \/ \E c \in DOMAIN calls : ServerHandles(c)
    \/ \E c \in DOMAIN calls : ResponseArrives(c)
    \/ \E c \in DOMAIN calls : NetworkFails(c)

MigrateSpec == MigrateInit /\ [][MigrateNext]_vars

\* this step is the last of migration run c: its early return, or the
\* continuation after its import
MigrationEnds(c) ==
    /\ calls'[c].op = "migrate"
    /\ calls'[c].stage = "resolved"
    /\ c \in DOMAIN calls => calls[c].stage # "resolved"

\* the old keys are gone and the backup keys hold what run c read from them
\* ('[]' for a key that was absent), in the state after the step
MigratedAway(c) ==
    \A k \in Kinds :
       /\ localStorage'[OldKey[k]] = NoItem
       /\ localStorage'[BackupKey[k]] =
             IF calls'[c].req.raw[k] = NoItem THEN Stored(<<>>) ELSE calls'[c].req.raw[k]

\* migration run c has returned true
MigratedBy(c) ==
    calls[c].op = "migrate" /\ calls[c].stage = "resolved" /\ calls[c].result = TRUE

\* C15 as stated, for the runs that had something to import: after a run that
\* found legacy keys and sent their contents to the server, the old keys are
\* removed and their contents backed up.
C15_FoundKeysAreRemoved ==
    [][\A c \in DOMAIN calls' :
          (/\ MigrationEnds(c)
           /\ calls'[c].req.found
           /\ calls'[c].req.method = "IMPORT") => MigratedAway(c)]_vars

\* C15 amended: a run that finds no legacy key makes no request, changes
\* nothing and returns false; a run returns true exactly when it made the
\* import request and the request succeeded, and then the old keys are removed
\* and their contents backed up; a run that returns false changes nothing; and
\* once a run has returned true the old keys stay absent, so every run started
\* later finds none.
C15_MigrationRunsOnceAfterSuccess ==
    [][/\ \A c \in DOMAIN calls' :
             MigrationEnds(c) =>
                /\ ~calls'[c].req.found =>
                      calls'[c].req.method = "NONE" /\ calls'[c].result = FALSE
                /\ calls'[c].result = TRUE <=>
                      (calls'[c].req.method = "IMPORT" /\ calls'[c].resp.ok)
                /\ calls'[c].result = TRUE => MigratedAway(c)
                /\ calls'[c].result = FALSE => localStorage' = localStorage
       /\ (\E c \in DOMAIN calls : MigratedBy(c)) =>
             /\ \A k \in Kinds : localStorage'[OldKey[k]] = NoItem
             /\ \A c \in DOMAIN calls' \ DOMAIN calls :
                   calls'[c].op = "migrate" => ~calls'[c].req.found]_vars

\* a run has imported legacy prompts and returned true, the backup holds them,
\* and a later run found no legacy key and returned false without a request
C15_Witness ==
    \E c, d \in DOMAIN calls :
       /\ c < d
       /\ MigratedBy(c)
       /\ calls[c].req.raw.prompts = Stored(<<LegacyPrompt(1, "t1")>>)
       /\ localStorage[BackupKey.prompts] = Stored(<<LegacyPrompt(1, "t1")>>)
       /\ localStorage[OldKey.prompts] = NoItem
       /\ calls[d].op = "migrate" /\ calls[d].stage = "resolved"
       /\ ~calls[d].req.found /\ calls[d].req.method = "NONE" /\ calls[d].result = FALSE

(***************************************************************************)
(* createPromptVersion                                                     *)
(***************************************************************************)
\* slice(0, 5): the number of versions kept
VersionCap == 5

\* the clock stops at MaxClock
MaxClock == 7

\* Array.prototype.slice(0, n)
slice0(s, n) == SubSeq(s, 1, Min({n, Len(s)}))

\* the snapshot of a prompt: id and savedAt are two reads of Date.now()
Snapshot(p, id, savedAt) ==
    [id |-> id, title |-> p.title, content |-> p.content, savedAt |-> savedAt]

\* a version history without a cap
createPromptVersionNoCap(p, id, savedAt) ==
    [p EXCEPT !.versions = <<Snapshot(p, id, savedAt)>> \o p.versions]

\* createPromptVersion(prompt), Date.now() reading id and then savedAt
createPromptVersion(p, id, savedAt) ==
    [p EXCEPT !.versions = slice0(<<Snapshot(p, id, savedAt)>> \o p.versions, VersionCap)]

\* the title and content the prompt has when a version is saved
Edits == { [title |-> "t1", content |-> "c1"], [title |-> "t2", content |-> "c2"],
           [title |-> "t1", content |-> "c2"] }

\* a prompt with n earlier versions, saved at times 1..n, most recent first
StartPrompt(n) ==
    [id |-> 1, title |-> "t0", content |-> "c0", isPinned |-> FALSE,
     folderId |-> NoFolder,
     versions |-> [i \in 1..n |->
                     [id |-> n - i + 1, title |-> "t0", content |-> "c0",
                      savedAt |-> n - i + 1]]]

VersionInit ==
    /\ TplIdle /\ CopyIdle /\ SyncIdle /\ ConnIdle
    /\ json = NotRun
    /\ imported = NotRun
    /\ \E n \in 0..VersionCap : prompt = StartPrompt(n) /\ now = n

\* createPromptVersion on the prompt as edited since the last call, a
\* millisecond after it; savedAt is read lag milliseconds after id
CreatePromptVersion(edit, lag) ==
    /\ now + 1 + lag <= MaxClock
    /\ now' = now + 1
    /\ prompt' = createPromptVersion(Spread(prompt, edit), now + 1, now + 1 + lag)
    /\ UNCHANGED <<json, imported>>
    /\ UNCHANGED <<tplVars, copyVars, syncVars, connVars>>

VersionNext == \E edit \in Edits, lag \in {0, 1} : CreatePromptVersion(edit, lag)

VersionSpec == VersionInit /\ [][VersionNext]_vars

\* C16: from a prompt with at most 5 versions, every createPromptVersion call
\* leaves at most 5 versions, puts a snapshot of the prompt's current title and
\* content first, keeps the earlier snapshots behind it in their order, and
\* drops the oldest one exactly when there were 5 already; the snapshots stay
\* ordered most recent first.
C16_VersionsCappedNewestFirst ==
    [][prompt' # prompt =>
          LET old == prompt.versions
              new == prompt'.versions
          IN  /\ Len(new) <= VersionCap
              /\ Len(new) = IF Len(old) = VersionCap THEN VersionCap ELSE Len(old) + 1
              /\ new[1].title = prompt'.title /\ new[1].content = prompt'.content
              /\ \A i \in 2..Len(new) : new[i] = old[i - 1]
              /\ \A i, j \in DOMAIN new : i < j => new[i].savedAt >= new[j].savedAt
              /\ [prompt' EXCEPT !.versions = <<>>, !.title = "", !.content = ""]
                    = [prompt EXCEPT !.versions = <<>>, !.title = "", !.content = ""]]_vars

\* the history is full, holds no snapshot of the starting history, and its
\* oldest snapshot was taken after time 1, the time of the first call on an
\* empty history: the first snapshot has been evicted
C16_Witness ==
    /\ prompt # NotRun
    /\ Len(prompt.versions) = VersionCap
    /\ \A i \in DOMAIN prompt.versions : prompt.versions[i].title # "t0"
    /\ prompt.versions[VersionCap].id >= 2
    /\ prompt.versions[1].title = "t2" /\ prompt.versions[2].title = "t1"

(***************************************************************************)
(* The cache under any stored value: loadPrompts, loadFolders, savePrompts, *)
(* saveFolders                                                             *)
(***************************************************************************)
\* what a cache key can hold when the app starts
CacheValues(k) == { NoItem, Garbage, StoredOther, Stored(<<>>), Stored(SeedData[k]) }

StorageInit ==
    /\ TplIdle /\ CopyIdle /\ RestIdle
    /\ localStorage \in [Kinds -> UNION { CacheValues(k) : k \in Kinds }]
    /\ \A k \in Kinds : localStorage[k] \in CacheValues(k)
    /\ storageWorks \in BOOLEAN
    /\ remote = NoData
    /\ calls = <<>>

\* a synchronous call and how it ended
SyncCall(op2, k, stage, result) ==
    [op |-> op2, req |-> [coll |-> k, method |-> "NONE"], stage |-> stage,
     resp |-> NoResp, result |-> result]

\* loadPrompts(): getCachedPrompts().map(...), a TypeError when the parsed
\* value has no map; loadFolders(): getCachedFolders() as it is
LoadSync(k) ==
    /\ Len(calls) < MaxCalls
    /\ LET cached == getCached(k)
       IN  calls' = Append(calls,
               IF k = "prompts"
               THEN IF isArray(cached)
                    THEN SyncCall("read", k, "resolved", MapSeq(withDefaults, cached))
                    ELSE SyncCall("read", k, "rejected", NoResult)
               ELSE SyncCall("read", k, "resolved", cached))
    /\ UNCHANGED <<localStorage, storageWorks, remote>>
    /\ UNCHANGED <<tplVars, copyVars, restVars>>

\* savePrompts(prompts) / saveFolders(folders)
SaveSync(k, list) ==
    /\ Len(calls) < MaxCalls
    /\ localStorage' = setCached(localStorage, k, list)
    /\ calls' = Append(calls, SyncCall("write", k, "resolved", list))
    /\ UNCHANGED <<storageWorks, remote>>
    /\ UNCHANGED <<tplVars, copyVars, restVars>>

StorageNext ==
    \/ \E k \in Kinds : LoadSync(k)
    \/ \E k \in Kinds : \E e \in SaveInputs(k) : SaveSync(k, <<e>>)

StorageSpec == StorageInit /\ [][StorageNext]_vars

\* C17: whatever a cache key holds and whether or not localStorage works, a
\* read of the cache raises nothing and returns a sequence of entities, the
\* empty one when the item is missing or unparseable or the read fails; a
\* write raises nothing and is dropped when localStorage fails.
C17_CacheReadsAlwaysUsable ==
    [][\A c \in DOMAIN calls' \ DOMAIN calls :
          LET k == calls'[c].req.coll
          IN  /\ calls'[c].op = "read" =>
                    /\ calls'[c].stage = "resolved"
                    /\ isArray(calls'[c].result)
                    /\ (~storageWorks \/ localStorage[k] \in {NoItem, Garbage})
                          => calls'[c].result = <<>>
                    /\ localStorage' = localStorage
              /\ calls'[c].op = "write" =>
                    /\ calls'[c].stage = "resolved"
                    /\ ~storageWorks => localStorage' = localStorage]_vars

(***************************************************************************)
(* Connection status: the web API service and the bubble's ApiClient       *)
(***************************************************************************)
\* at most MaxProbes checkConnection calls are made
MaxProbes == 2

\* a listener registers again only while it has received fewer than
\* MaxDelivered statuses
MaxDelivered == 2

\* at most MaxStarts startConnectionMonitoring calls are made
MaxStarts == 3

\* the listeners registered
Registered == { connectionListeners[i] : i \in DOMAIN connectionListeners }

\* setConnectionStatus(status): the status afterwards
statusAfter(status) == status

\* setConnectionStatus(status): what the listeners have received afterwards;
\* they are called only when the status changes
receivedAfter(status) ==
    [l \in Listeners |->
        IF connectionStatus # status /\ l \in Registered
        THEN Append(received[l], status) ELSE received[l]]

\* a replay at registration in both clients
replaysCurrentAlways(c) == TRUE

\* whether onConnectionStatusChange calls the new listener with the current
\* status: the bubble's ApiClient does, the web API service does not
replaysCurrent(c) == c = "bubble"

\* onConnectionStatusChange(listener), for a listener that is not registered
\* and has been called fewer than MaxDelivered times
OnConnectionStatusChange(l) ==
    /\ l \notin Registered
    /\ Len(received[l]) < MaxDelivered
    /\ connectionListeners' = Append(connectionListeners, l)
    /\ received' = IF replaysCurrent(client)
                   THEN [received EXCEPT ![l] = Append(@, connectionStatus)]
                   ELSE received
    /\ UNCHANGED <<client, connectionStatus, connectionCheckInterval, timers, starts, probes>>
    /\ UNCHANGED <<tplVars, copyVars, syncVars, utilVars>>

\* the function onConnectionStatusChange returned, called
Unsubscribe(l) ==
    /\ l \in Registered
    /\ connectionListeners' = SelectSeq(connectionListeners, LAMBDA x : x # l)
    /\ UNCHANGED <<client, connectionStatus, received, connectionCheckInterval, timers, starts, probes>>
    /\ UNCHANGED <<tplVars, copyVars, syncVars, utilVars>>

\* checkConnection up to the await of the health request: the status is set to
\* checking; by tells who called: "monitor" for startConnectionMonitoring and
\* its timer, "direct" for any other caller
beginProbe(by) ==
    /\ Len(probes) < MaxProbes
    /\ connectionStatus' = statusAfter("checking")
    /\ received' = receivedAfter("checking")
    /\ probes' = Append(probes, [by |-> by, stage |-> "awaiting", ok |-> FALSE,
                                 result |-> FALSE, set |-> "checking", seq |-> 0])

\* checkConnection() called by the application (in the bubble: initialize() and
\* the interval of App)
CheckConnection ==
    /\ beginProbe("direct")
    /\ UNCHANGED <<client, connectionListeners, connectionCheckInterval, timers, starts>>
    /\ UNCHANGED <<tplVars, copyVars, syncVars, utilVars>>

\* a monitor that never finds its timer set
monitoringNever(interval) == FALSE

\* the test of startConnectionMonitoring: whether the timer is already set
monitoring(interval) == interval

\* startConnectionMonitoring(): returns at once when the timer is set, else
\* makes the initial check and sets the timer with setInterval
StartConnectionMonitoring ==
    /\ client = "web"
    /\ starts < MaxStarts
    /\ starts' = starts + 1
    /\ IF monitoring(connectionCheckInterval)
       THEN UNCHANGED <<connectionStatus, received, probes,
                        connectionCheckInterval, timers>>
       ELSE /\ beginProbe("monitor")
            /\ timers' = timers + 1
            /\ connectionCheckInterval' = TRUE
    /\ UNCHANGED <<client, connectionListeners>>
    /\ UNCHANGED <<tplVars, copyVars, syncVars, utilVars>>

\* an interval timer set by startConnectionMonitoring fires
TimerTick ==
    /\ client = "web"
    /\ timers > 0
    /\ beginProbe("monitor")
    /\ UNCHANGED <<client, connectionListeners, connectionCheckInterval, timers, starts>>
    /\ UNCHANGED <<tplVars, copyVars, syncVars, utilVars>>

\* stopConnectionMonitoring(): clearInterval when the timer is set
StopConnectionMonitoring ==
    /\ client = "web"
    /\ connectionCheckInterval
    /\ connectionCheckInterval' = FALSE
    /\ timers' = timers - 1
    /\ UNCHANGED <<client, connectionStatus, connectionListeners, received, probes, starts>>
    /\ UNCHANGED <<tplVars, copyVars, syncVars, utilVars>>

\* the probes whose health request has settled; seq numbers them in the order
\* in which they completed
DoneProbes == { p \in DOMAIN probes : probes[p].stage = "done" }

\* a probe that leaves the status as it is when its health request fails
probeStatusKept(ok) == IF ok THEN "connected" ELSE connectionStatus

\* a probe that always reports connected
probeStatusConnected(ok) == "connected"

\* the status a probe sets when its health request has settled
probeStatus(ok) == IF ok THEN "connected" ELSE "disconnected"

\* the health request of probe p settles: ok when it was answered 2xx, not ok
\* for a network error, a timeout or another answer; checkConnection sets the
\* status and returns
ProbeCompletes(p, ok) ==
    /\ probes[p].stage = "awaiting"
    /\ connectionStatus' = statusAfter(probeStatus(ok))
    /\ received' = receivedAfter(probeStatus(ok))
    /\ probes' = [probes EXCEPT ![p] = [@ EXCEPT !.stage = "done", !.ok = ok,
                                          !.result = (probeStatus(ok) = "connected"),
                                          !.set = probeStatus(ok),
                                          !.seq = Cardinality(DoneProbes) + 1]]
    /\ UNCHANGED <<client, connectionListeners, connectionCheckInterval, timers, starts>>
    /\ UNCHANGED <<tplVars, copyVars, syncVars, utilVars>>

\* the bubble's fetchPrompts() settles: a response that is ok changes nothing
\* of the connection state, any failure sets the status to disconnected
FetchPromptsSettles(ok) ==
    /\ client = "bubble"
    /\ IF ok THEN UNCHANGED <<connectionStatus, received>>
       ELSE /\ connectionStatus' = statusAfter("disconnected")
            /\ received' = receivedAfter("disconnected")
    /\ UNCHANGED <<client, connectionListeners, connectionCheckInterval, timers, starts, probes>>
    /\ UNCHANGED <<tplVars, copyVars, syncVars, utilVars>>

ConnInit ==
    /\ TplIdle /\ CopyIdle /\ SyncIdle /\ UtilIdle
    /\ client \in {"web", "bubble"}
    /\ connectionStatus = "checking"
    /\ connectionListeners = <<>>
    /\ received = [l \in Listeners |-> <<>>]
    /\ connectionCheckInterval = FALSE
    /\ timers = 0
    /\ starts = 0
    /\ probes = <<>>

ConnNext ==
    \/ \E l \in Listeners : OnConnectionStatusChange(l)
    \/ \E l \in Listeners : Unsubscribe(l)
    \/ CheckConnection
    \/ StartConnectionMonitoring
    \/ TimerTick
    \/ StopConnectionMonitoring
    \/ \E p \in DOMAIN probes : \E ok \in BOOLEAN : ProbeCompletes(p, ok)

ConnSpec == ConnInit /\ [][ConnNext]_vars

(***************************************************************************)
(* Claims about the connection status                                      *)
(***************************************************************************)
\* probe p begins in this step
Begins(p) == p \in DOMAIN probes' /\ p \notin DOMAIN probes

\* probe p completes in this step
Completes(p) ==
    p \in DOMAIN probes /\ probes[p].stage = "awaiting" /\ probes'[p].stage = "done"

\* C18: every probe sets the status to checking when it begins; when it
\* completes it sets the status to connected if its health request succeeded
\* and to disconnected if it failed, and it returns true exactly when the
\* status it set is connected.
C18_ProbeSetsStatus ==
    [][\A p \in DOMAIN probes' :
          /\ Begins(p) => connectionStatus' = "checking"
          /\ Completes(p) =>
                /\ connectionStatus' = IF probes'[p].ok THEN "connected" ELSE "disconnected"
                /\ probes'[p].result = (connectionStatus' = "connected")]_vars

\* two probes have completed, one with a successful health request and one
\* with a failed one, and a listener has been told of the changes
C18_Witness ==
    \E p, q \in DOMAIN probes :
       /\ probes[p].stage = "done" /\ probes[p].ok /\ probes[p].result
       /\ probes[q].stage = "done" /\ ~probes[q].ok /\ ~probes[q].result
       /\ \E l \in Listeners : Len(received[l]) >= 2

\* C19: a change of the status is delivered to every registered listener, and
\* a listener is called with the current status in the step that registers it,
\* in the web API service and in the bubble's ApiClient alike.
C19_BroadcastAndReplay ==
    [][/\ \A l \in Listeners :
             (l \notin Registered /\ l \in Registered')
                => received'[l] = Append(received[l], connectionStatus)
       /\ connectionStatus' # connectionStatus =>
             \A l \in Registered : received'[l] = Append(received[l], connectionStatus')]_vars

\* C20: once stopConnectionMonitoring has cleared the timer, a probe the
\* monitor started calls no listener when it completes.
C20_NoCallbackAfterStop ==
    [][\A p \in DOMAIN probes :
          (/\ Completes(p)
           /\ probes[p].by = "monitor"
           /\ ~connectionCheckInterval)
          => received' = received]_vars

\* C21: startConnectionMonitoring is idempotent: at most one interval timer is
\* active at any time, it is active exactly while the handle is set, and a
\* start call made while the handle is set creates no timer and begins no probe.
C21_StartIsIdempotent ==
    [][/\ timers' <= 1
       /\ timers' = (IF connectionCheckInterval' THEN 1 ELSE 0)
       /\ (starts' # starts /\ connectionCheckInterval)
             => /\ timers' = timers
                /\ probes' = probes
                /\ connectionStatus' = connectionStatus
                /\ connectionCheckInterval' = connectionCheckInterval]_vars

\* monitoring was started twice without a stop in between: the second call
\* found the timer set, so one timer is active and one probe was begun
C21_Witness ==
    /\ starts = 2
    /\ timers = 1
    /\ connectionCheckInterval
    /\ Len(probes) = 1
    /\ probes[1].by = "monitor"

(***************************************************************************)
(* Claims about the choice between create and update                       *)
(***************************************************************************)
\* the cache of collection k holds an entity with this id
CacheHolds(k, id) ==
    /\ storageWorks
    /\ localStorage[k].stored = "json"
    /\ \E i \in DOMAIN localStorage[k].list : localStorage[k].list[i].id = id

\* call c is a save that begins in this step
SaveBegins(c) ==
    c \in DOMAIN calls' /\ c \notin DOMAIN calls /\ calls'[c].op = "save"

\* C22: a call of savePromptAsync / saveFolderAsync issues one request: an
\* update (PUT) if the cache holds an entity with the id when the call is made
\* and a create (POST) otherwise, whatever the server stores; the request is
\* never changed or sent again, whatever its outcome.
C22_SaveMethodFollowsCache ==
    [][/\ \A c \in DOMAIN calls' :
             SaveBegins(c) =>
                /\ Len(calls') = Len(calls) + 1
                /\ remote' = remote
                /\ calls'[c].stage = "sent"
                /\ calls'[c].req.id = calls'[c].req.body.id
                /\ calls'[c].req.method =
                      IF CacheHolds(calls'[c].req.coll, calls'[c].req.id)
                      THEN "PUT" ELSE "POST"
       /\ \A c \in DOMAIN calls :
             calls[c].op = "save" =>
                /\ calls'[c].req = calls[c].req
                /\ calls[c].stage # "sent" => calls'[c].stage # "sent"
                /\ calls[c].stage \in {"resolved", "rejected"} => calls'[c] = calls[c]]_vars

\* an update was issued for an entity the cache held and the server lacked
\* (answered with a failure and rejected), and a create was issued for another
\* id and resolved
C22_Witness ==
    \E c, d \in DOMAIN calls :
       /\ calls[c].op = "save" /\ calls[c].req.method = "PUT"
       /\ calls[c].stage = "rejected" /\ ~calls[c].resp.ok
       /\ calls[d].op = "save" /\ calls[d].req.method = "POST"
       /\ calls[d].stage = "resolved"

(***************************************************************************)
(* Concurrent saves: only saves are called, with two edits of every entity  *)
(***************************************************************************)
\* the titles two edits of one entity give it
EditTitles == {"t2", "t3"}

\* the entities the UI saves when the same entity is edited twice
EditInputs(k) ==
    IF k = "prompts" THEN { Prompt(i, t) : i \in Ids(k), t \in EditTitles }
    ELSE { Folder(i, t) : i \in Ids(k), t \in EditTitles }

\* saves in any interleaving with the server's handling, the arrival of the
\* responses and network failures
SavesNext ==
    \/ \E k \in Kinds : \E e \in EditInputs(k) : SaveAsync(k, e)
    \/ \E c \in DOMAIN calls : ServerHandles(c)
    \/ \E c \in DOMAIN calls : ResponseArrives(c)
    \/ \E c \in DOMAIN calls : NetworkFails(c)

SavesSpec == SyncInit /\ [][SavesNext]_vars

\* calls c and d are saves of the same id of the same collection
SameEntity(c, d) ==
    /\ c # d
    /\ calls[c].op = "save" /\ calls[d].op = "save"
    /\ calls[c].req.coll = calls[d].req.coll
    /\ calls[c].req.id = calls[d].req.id

\* the cache of collection k holds exactly one entry with the id of e, and it
\* is e
HoldsOnly(store, k, e) ==
    /\ store[k].stored = "json"
    /\ \E i \in DOMAIN store[k].list :
          /\ store[k].list[i] = e
          /\ \A j \in DOMAIN store[k].list : store[k].list[j].id = e.id => j = i

\* the row the server stores for the entity of call c
RemoteRow(c) ==
    LET k == calls[c].req.coll
    IN  { remote[k][i] : i \in { j \in DOMAIN remote[k] : remote[k][j].id = calls[c].req.id } }

\* the title (name, for a folder) of an entity
TitleOf(e) == IF Has(e, "title") THEN e.title ELSE e.name

\* C23: when two saves of the same id are in flight together and both
\* succeed, the cache holds one entry for the id once both have completed: the
\* entity carried by the response that arrived last, whichever write the
\* server applied last.
C23_CacheHoldsLastResponse ==
    [][\A c, d \in DOMAIN calls :
          (/\ SameEntity(c, d)
           /\ calls[d].stage = "resolved"
           /\ Ends(c, "save", TRUE))
          => /\ calls'[c].stage = "resolved"
             /\ calls'[c].result = calls'[c].resp.body
             /\ HoldsOnly(localStorage', calls[c].req.coll, calls'[c].resp.body)]_vars

\* two saves of one id with different titles were in flight together and both
\* resolved; the server applied the second call's write last, the first call's
\* response arrived last, so the cache holds the first call's entity and the
\* server the second's
C23_Witness ==
    /\ Len(calls) = 2
    /\ SameEntity(1, 2)
    /\ calls[1].stage = "resolved" /\ calls[2].stage = "resolved"
    /\ TitleOf(calls[1].req.body) # TitleOf(calls[2].req.body)
    /\ HoldsOnly(localStorage, calls[1].req.coll, calls[1].result)
    /\ TitleOf(calls[1].result) = TitleOf(calls[1].req.body)
    /\ \A r \in RemoteRow(1) : TitleOf(r) = TitleOf(calls[2].req.body)
    /\ RemoteRow(1) # {}

\* the same two saves, where the server applied the first call's write last
C23_FirstWriteWins ==
    /\ Len(calls) = 2
    /\ SameEntity(1, 2)
    /\ calls[1].stage = "resolved" /\ calls[2].stage = "resolved"
    /\ TitleOf(calls[1].req.body) # TitleOf(calls[2].req.body)
    /\ RemoteRow(1) # {}
    /\ \A r \in RemoteRow(1) : TitleOf(r) = TitleOf(calls[1].req.body)

\* call c is a save that resolved, and no other save was called for its id
SavedAlone(c) ==
    /\ calls[c].op = "save"
    /\ calls[c].stage = "resolved"
    /\ \A d \in DOMAIN calls : ~SameEntity(c, d)

\* C24: saves of distinct ids lose no cache update, however their requests and
\* responses interleave: from the moment a save resolves, the cache holds the
\* entity its response carried, while other saves begin, are answered and
\* complete.
C24_NoCacheUpdateLost ==
    \A c \in DOMAIN calls :
       SavedAlone(c) =>
          /\ calls[c].result = calls[c].resp.body
          /\ HoldsOnly(localStorage, calls[c].req.coll, calls[c].result)

\* two saves of distinct prompts were in flight together, both resolved, the
\* one called first completing last, and the cache holds both returned entities
C24_Witness ==
    /\ Len(calls) = 2
    /\ calls[1].req.coll = "prompts" /\ calls[2].req.coll = "prompts"
    /\ SavedAlone(1) /\ SavedAlone(2)
    /\ localStorage["prompts"].stored = "json"
    /\ Len(localStorage["prompts"].list) = 2
    /\ localStorage["prompts"].list[1] = calls[2].result
    /\ localStorage["prompts"].list[2] = calls[1].result

(***************************************************************************)
(* Replacing every extracted variable (handleCopy's initial values followed *)
(* by handleCopyWithVariables)                                             *)
(***************************************************************************)
\* the texts typed for a variable: none of them holds a brace
PlainTexts == { <<>>, <<"x">>, <<":">>, <<" ", "a">> }

\* the names extractVariables returns for a content
ExtractedNames(s) ==
    { extractVariables(s)[i].name : i \in DOMAIN extractVariables(s) }

\* replaceVariables(content, values) with a values mapping that has an entry
\* of plain text for every name extractVariables(content) returns
ReplaceExtracted ==
    /\ op = "none"
    /\ \E vals \in [ExtractedNames(content) -> PlainTexts] :
          /\ values' = vals
          /\ replaced' = replaceVariables(content, vals)
    /\ variables' = extractVariables(content)
    /\ op' = "replaceExtracted"
    /\ UNCHANGED content
    /\ UNCHANGED <<copyVars, syncVars, restVars>>

AgreeSpec == TplInit /\ [][ReplaceExtracted]_vars

\* no value of the mapping holds a brace
BraceFree(vals) ==
    \A n \in DOMAIN vals : \A i \in DOMAIN vals[n] : vals[n][i] \notin {"{", "}"}

\* C25 as stated: when the values mapping has an entry for every name
\* extractVariables returns for the content and no value holds a brace, the
\* text replaceVariables produces holds no placeholder: extractVariables of it
\* is empty.
C25_NoPlaceholderRemains ==
    (/\ op = "replaceExtracted"
     /\ ExtractedNames(content) \subseteq DOMAIN values
     /\ BraceFree(values))
    => extractVariables(replaced) = <<>>

\* C25: when the values mapping has an entry for every name extractVariables
\* returns for the content and every value is a non-empty text without
\* braces, extractVariables of the text replaceVariables produces is empty.
C25_NoPlaceholderAfterNonEmptyValues ==
    (/\ op = "replaceExtracted"
     /\ ExtractedNames(content) \subseteq DOMAIN values
     /\ BraceFree(values)
     /\ \A n \in DOMAIN values : values[n] # <<>>)
    => extractVariables(replaced) = <<>>

\* a content with a padded placeholder followed by a lone brace was replaced
\* with non-empty values: the text produced keeps the brace and the value and
\* holds no placeholder
C25_Witness ==
    /\ op = "replaceExtracted"
    /\ Len(variables) >= 1
    /\ Matches(content)[1].g1 # variables[1].name
    /\ \A n \in DOMAIN values : values[n] # <<>>
    /\ \E i \in DOMAIN replaced : replaced[i] \in {"{", "}"}
    /\ extractVariables(replaced) = <<>>

(***************************************************************************)
(* The status under overlapping probes: every writer of the status, with no *)
(* listener registered                                                     *)
(***************************************************************************)
ProbeNext ==
    \/ CheckConnection
    \/ StartConnectionMonitoring
    \/ TimerTick
    \/ StopConnectionMonitoring
    \/ \E p \in DOMAIN probes : \E ok \in BOOLEAN : ProbeCompletes(p, ok)
    \/ \E ok \in BOOLEAN : FetchPromptsSettles(ok)

ProbeSpec == ConnInit /\ [][ProbeNext]_vars

\* the probe that completed last
LastDone == CHOOSE p \in DoneProbes : \A q \in DoneProbes : probes[q].seq <= probes[p].seq

\* the status the health request of probe p stands for
Outcome(p) == IF probes[p].ok THEN "connected" ELSE "disconnected"

\* every probe begun has completed, and there is one
ProbesSettled == DoneProbes # {} /\ DoneProbes = DOMAIN probes

\* C26 as stated: whenever no probe is in flight and at least one has
\* completed, the status is connected or disconnected and is the outcome of
\* the probe that completed last, in both clients.
C26_StatusIsLastOutcome ==
    ProbesSettled =>
       /\ connectionStatus \in {"connected", "disconnected"}
       /\ connectionStatus = Outcome(LastDone)

\* C26: whenever no probe is in flight and at least one has completed, the
\* status is connected or disconnected, never checking; in the web API service
\* it is the outcome of the probe that completed last, in the bubble it is that
\* outcome or disconnected (set by a fetchPrompts that failed since).
C26_StatusSettledWithProbes ==
    ProbesSettled =>
       /\ connectionStatus \in {"connected", "disconnected"}
       /\ client = "web" => connectionStatus = Outcome(LastDone)
       /\ client = "bubble" => connectionStatus \in {Outcome(LastDone), "disconnected"}

\* two probes overlapped, the one begun first completing last with a failure
\* after the other had succeeded: the status is disconnected
C26_Witness ==
    /\ Len(probes) = 2
    /\ ProbesSettled
    /\ probes[1].seq = 2 /\ ~probes[1].ok
    /\ probes[2].seq = 1 /\ probes[2].ok
    /\ connectionStatus = "disconnected"

====
